---- MODULE Spec2Model ----
(***************************************************************************)
(* The narrator-rules migration scripts of claude-companion (.scratch/):   *)
(*   update_captures.py, update_narrator_rules.py,                          *)
(*   update_narrator_rules_v2.py, fix_filename_captures.py.                 *)
(* Every script is load (json.load) - edits - store (one json.dump).        *)
(* A JSON object is an insertion-ordered mapping: a sequence of            *)
(* [name, rule] entries.  A tool name is the sequence of its "__"-separated *)
(* segments, so that str.startswith is a prefix test on sequences.          *)
(***************************************************************************)
EXTENDS Integers, Sequences, FiniteSets, TLC

VARIABLES stored, data, base, script, pc, status, err, failedAt, runs,
          last, before, rules_to_remove, log

vars == <<stored, data, base, script, pc, status, err, failedAt, runs,
          last, before, rules_to_remove, log>>

\* number of script runs explored
MaxRuns == 3

-----------------------------------------------------------------------------
\* Tool names

NRead == <<"Read">>
NWrite == <<"Write">>
NEdit == <<"Edit">>
NNotebookRead == <<"NotebookRead">>
NNotebookEdit == <<"NotebookEdit">>
NSerenaReadFile == <<"mcp", "serena", "read_file">>
NIdeDiagnostics == <<"mcp", "ide", "getDiagnostics">>
NGithubSearch == <<"mcp", "github", "search">>
NSerenaFindSymbol == <<"mcp", "serena", "find_symbol">>

PrefixSerena == <<"mcp", "serena">>
PrefixIde == <<"mcp", "ide">>

\* key.startswith(prefix), prefix ending in the separator "__"
StartsWith(key, prefix) ==
    /\ Len(key) > Len(prefix)
    /\ SubSeq(key, 1, Len(prefix)) = prefix

IsMcpKey_anyMcp(key) == StartsWith(key, <<"mcp">>)

IsMcpKey(key) == StartsWith(key, PrefixSerena) \/ StartsWith(key, PrefixIde)

-----------------------------------------------------------------------------
\* Templates: a sequence of tokens, a placeholder {name} or literal text

Ph(n) == [kind |-> "ph", v |-> n]
Lit(t) == [kind |-> "lit", v |-> t]

TplRead == <<Ph("filetype"), Lit("["), Ph("filename"), Lit("] wo yomikomimasu")>>
TplWrite == <<Ph("filetype"), Lit("["), Ph("filename"), Lit("] wo sakusei shimasu")>>
TplEdit == <<Ph("filetype"), Lit("["), Ph("filename"), Lit("] wo henshuu shimasu")>>
TplSerenaRead == <<Ph("filetype"), Lit("["), Ph("file_path"), Lit("] wo yomikomimasu")>>

Placeholders(tpl) == {tpl[i].v : i \in {j \in DOMAIN tpl : tpl[j].kind = "ph"}}

-----------------------------------------------------------------------------
\* Ordered mappings (dict)

Keys(m) == {m[i].name : i \in DOMAIN m}
KeyList(m) == [i \in DOMAIN m |-> m[i].name]
HasKey(m, n) == \E i \in DOMAIN m : m[i].name = n
Get(m, n) == m[CHOOSE i \in DOMAIN m : m[i].name = n].rule
SetRule(m, n, r) == [i \in DOMAIN m |-> IF m[i].name = n THEN [name |-> n, rule |-> r] ELSE m[i]]
Del(m, n) == SelectSeq(m, LAMBDA e : e.name /= n)

\* d[f] = v on a dict d
SetField(d, f, v) == [k \in DOMAIN d \cup {f} |-> IF k = f THEN v ELSE d[k]]

CapturesOf(r) == IF "captures" \in DOMAIN r THEN r.captures ELSE <<>>

Ok(d) == [ok |-> TRUE, err |-> [type |-> "none"], doc |-> d]
KeyError(k, d) == [ok |-> FALSE, err |-> [type |-> "KeyError", key |-> k], doc |-> d]

-----------------------------------------------------------------------------
\* The edits of the scripts

DropSection_noCheck(d, s) ==
    IF s \in d.sections THEN Ok([d EXCEPT !.sections = @ \ {s}]) ELSE KeyError(s, d)

\* if 'extensionTemplates' in data: del data['extensionTemplates']
DropSection(d, s) ==
    IF s \in d.sections THEN Ok([d EXCEPT !.sections = @ \ {s}]) ELSE Ok(d)

SetDefaultTemplate_create(d, n, t) ==
    IF HasKey(d.rules, n)
    THEN Ok([d EXCEPT !.rules = SetRule(@, n, SetField(Get(@, n), "default", t))])
    ELSE Ok([d EXCEPT !.rules = Append(@, [name |-> n, rule |-> [default |-> t]])])

\* data['rules'][n]['default'] = t
SetDefaultTemplate(d, n, t) ==
    IF HasKey(d.rules, n)
    THEN Ok([d EXCEPT !.rules = SetRule(@, n, SetField(Get(@, n), "default", t))])
    ELSE KeyError(n, d)

\* data['rules'][n]['captures'] = caps
SetCaptures(d, n, caps) ==
    IF HasKey(d.rules, n)
    THEN Ok([d EXCEPT !.rules = SetRule(@, n, SetField(Get(@, n), "captures", caps))])
    ELSE KeyError(n, d)

\* if 'captures' not in data['rules'][n]: data['rules'][n]['captures'] = []
\* data['rules'][n]['captures'].append(c)
AddCapture(d, n, c) ==
    IF HasKey(d.rules, n)
    THEN LET r == Get(d.rules, n)
             r1 == IF "captures" \notin DOMAIN r THEN SetField(r, "captures", <<>>) ELSE r
         IN Ok([d EXCEPT !.rules = SetRule(@, n, SetField(r1, "captures", Append(r1.captures, c)))])
    ELSE KeyError(n, d)

\* new_captures.append({'inputKey': capture['inputKey']})
StripCapture(c) == [inputKey |-> c.inputKey]

\* if 'captures' in rules: rules['captures'] = new_captures
StripRule(r) ==
    IF "captures" \in DOMAIN r
    THEN SetField(r, "captures", [j \in DOMAIN r.captures |-> StripCapture(r.captures[j])])
    ELSE r

\* for tool_name, rules in data['rules'].items(): ...
\* capture['inputKey'] raises KeyError on a capture without that key
StripCaptureFields(d) ==
    IF \E i \in DOMAIN d.rules : \E j \in DOMAIN CapturesOf(d.rules[i].rule) :
           "inputKey" \notin DOMAIN CapturesOf(d.rules[i].rule)[j]
    THEN KeyError("inputKey", d)
    ELSE Ok([d EXCEPT !.rules =
               [i \in DOMAIN d.rules |-> [name |-> d.rules[i].name, rule |-> StripRule(d.rules[i].rule)]]])

\* rules_to_remove = [key for key in data['rules'].keys() if key.startswith(...)]
RulesToRemove_anyMcp(d) == SelectSeq(KeyList(d.rules), IsMcpKey_anyMcp)

RulesToRemove(d) == SelectSeq(KeyList(d.rules), IsMcpKey)

\* for key in rules_to_remove: del data['rules'][key]
RECURSIVE DelAll(_, _)
DelAll(m, ks) == IF ks = <<>> THEN m ELSE DelAll(Del(m, Head(ks)), Tail(ks))

RemoveMcpRules(d) == Ok([d EXCEPT !.rules = DelAll(@, RulesToRemove(d))])

-----------------------------------------------------------------------------
\* The scripts, as the sequence of their edits

Op(kind, rule, arg) == [kind |-> kind, rule |-> rule, arg |-> arg]
NoOp == Op("none", <<>>, <<>>)

CapPath(p) == [inputKey |-> p, parseFileType |-> TRUE]
CapFilename == [inputKey |-> "filename"]

ProgramV2 ==
    << Op("DropSection", <<>>, "extensionTemplates"),
       Op("SetDefaultTemplate", NRead, TplRead),
       Op("SetCaptures", NRead, <<CapPath("file_path")>>),
       Op("SetDefaultTemplate", NWrite, TplWrite),
       Op("AddCapture", NWrite, CapPath("file_path")),
       Op("SetDefaultTemplate", NEdit, TplEdit),
       Op("AddCapture", NEdit, CapPath("file_path")),
       Op("SetDefaultTemplate", NNotebookRead, TplRead),
       Op("AddCapture", NNotebookRead, CapPath("notebook_path")),
       Op("SetDefaultTemplate", NNotebookEdit, TplEdit),
       Op("AddCapture", NNotebookEdit, CapPath("notebook_path")),
       Op("SetDefaultTemplate", NSerenaReadFile, TplSerenaRead),
       Op("AddCapture", NSerenaReadFile, CapPath("file_path")) >>

ProgramFixFilename ==
    << Op("SetCaptures", NRead, <<CapPath("file_path"), CapFilename>>),
       Op("SetCaptures", NWrite, <<CapPath("file_path"), CapFilename>>),
       Op("SetCaptures", NEdit, <<CapPath("file_path"), CapFilename>>),
       Op("SetCaptures", NNotebookRead, <<CapPath("notebook_path"), CapFilename>>),
       Op("SetCaptures", NNotebookEdit, <<CapPath("notebook_path"), CapFilename>>) >>

ProgramUpdateCaptures == << Op("StripCaptureFields", <<>>, <<>>) >>

ProgramUpdateRules == << Op("RemoveMcpRules", <<>>, <<>>) >>

Scripts == {"update_narrator_rules_v2", "fix_filename_captures",
            "update_captures", "update_narrator_rules"}

Program(s) ==
    CASE s = "update_narrator_rules_v2" -> ProgramV2
      [] s = "fix_filename_captures" -> ProgramFixFilename
      [] s = "update_captures" -> ProgramUpdateCaptures
      [] s = "update_narrator_rules" -> ProgramUpdateRules
      [] OTHER -> <<>>

-----------------------------------------------------------------------------
\* The documents a run may find stored

TplPlain == <<Lit("tool wo jikkou shimasu")>>
TplPath(p) == <<Lit("["), Ph(p), Lit("]")>>
TplFiletype(p) == <<Ph("filetype"), Lit("["), Ph(p), Lit("]")>>

Shapes == {"bare", "empty", "path", "filetype", "legacy", "filename"}

InitRule(shape, p) ==
    CASE shape = "bare" -> [default |-> TplPlain]
      [] shape = "empty" -> [default |-> TplPlain, captures |-> <<>>]
      [] shape = "path" -> [default |-> TplPath(p), captures |-> <<[inputKey |-> p]>>]
      [] shape = "filetype" -> [default |-> TplFiletype(p), captures |-> <<CapPath(p)>>]
      [] shape = "legacy" ->
           [default |-> TplFiletype(p),
            captures |-> <<[inputKey |-> p, parseFileType |-> TRUE, placeholder |-> "x"]>>]
      [] OTHER ->
           [default |-> TplFiletype(p),
            captures |-> <<CapPath(p), [inputKey |-> "filename", computed |-> TRUE]>>]

PathKey(n) == IF n \in {NNotebookRead, NNotebookEdit} THEN "notebook_path" ELSE "file_path"

AllTools == <<NRead, NSerenaReadFile, NWrite, NIdeDiagnostics,
              NEdit, NGithubSearch, NNotebookRead, NNotebookEdit>>

Reverse(s) == [i \in DOMAIN s |-> s[Len(s) + 1 - i]]

InitDocs ==
    { [rules |-> [i \in DOMAIN names |-> [name |-> names[i], rule |-> InitRule(shape, PathKey(names[i]))]],
       mcpRules |-> mcp,
       sections |-> secs] :
        names \in { SelectSeq(o, LAMBDA n : n /= missing) :
                      o \in {AllTools, Reverse(AllTools)},
                      missing \in Keys([i \in DOMAIN AllTools |-> [name |-> AllTools[i]]]) \cup {<<>>} },
        shape \in Shapes,
        mcp \in { <<>>, <<[name |-> NSerenaFindSymbol, rule |-> InitRule("path", "name_path")]>> },
        secs \in { {"messages"}, {"messages", "extensionTemplates"} } }

Init ==
    /\ stored \in InitDocs
    /\ data = stored
    /\ base = stored
    /\ script = "none"
    /\ pc = 0
    /\ status = "idle"
    /\ err = [type |-> "none"]
    /\ failedAt = 0
    /\ runs = 0
    /\ last = NoOp
    /\ before = stored
    /\ rules_to_remove = <<>>
    /\ log = <<>>

-----------------------------------------------------------------------------
\* A run: load, the edits one after another, store

\* with open(..., 'r') as f: data = json.load(f)
Load(s) ==
    /\ status /= "running"
    /\ runs < MaxRuns
    /\ script' = s
    /\ data' = stored
    /\ base' = stored
    /\ pc' = 1
    /\ status' = "running"
    /\ err' = [type |-> "none"]
    /\ failedAt' = 0
    /\ runs' = runs + 1
    /\ last' = NoOp
    /\ before' = stored
    /\ rules_to_remove' = <<>>
    /\ UNCHANGED <<stored, log>>

AtOp(kind) ==
    /\ status = "running"
    /\ pc <= Len(Program(script))
    /\ Program(script)[pc].kind = kind

CurOp == Program(script)[pc]

\* an edit either completes or raises, which ends the process before json.dump
Exec(r) ==
    /\ last' = CurOp
    /\ before' = data
    /\ IF r.ok
       THEN /\ data' = r.doc
            /\ pc' = pc + 1
            /\ UNCHANGED <<status, err, failedAt>>
       ELSE /\ status' = "failed"
            /\ err' = r.err
            /\ failedAt' = pc
            /\ UNCHANGED <<data, pc>>
    /\ UNCHANGED <<stored, base, script, runs, log>>

DropSectionStep ==
    /\ AtOp("DropSection")
    /\ Exec(DropSection(data, CurOp.arg))
    /\ UNCHANGED rules_to_remove

SetDefaultTemplateStep ==
    /\ AtOp("SetDefaultTemplate")
    /\ Exec(SetDefaultTemplate(data, CurOp.rule, CurOp.arg))
    /\ UNCHANGED rules_to_remove

SetCapturesStep ==
    /\ AtOp("SetCaptures")
    /\ Exec(SetCaptures(data, CurOp.rule, CurOp.arg))
    /\ UNCHANGED rules_to_remove

AddCaptureStep ==
    /\ AtOp("AddCapture")
    /\ Exec(AddCapture(data, CurOp.rule, CurOp.arg))
    /\ UNCHANGED rules_to_remove

StripCaptureFieldsStep ==
    /\ AtOp("StripCaptureFields")
    /\ Exec(StripCaptureFields(data))
    /\ UNCHANGED rules_to_remove

RemoveMcpRulesStep ==
    /\ AtOp("RemoveMcpRules")
    /\ rules_to_remove' = RulesToRemove(data)
    /\ Exec(RemoveMcpRules(data))

StoreEnabled_finally ==
    \/ status = "running" /\ pc = Len(Program(script)) + 1
    \/ status = "failed"

\* json.dump is the last statement: reached only when no edit raised
StoreEnabled == status = "running" /\ pc = Len(Program(script)) + 1

\* with open(..., 'w') as f: json.dump(data, f, ...)
Store ==
    /\ StoreEnabled
    /\ stored' = data
    /\ status' = "done"
    /\ log' = Append(log, [script |-> script, changed |-> data /= stored])
    /\ UNCHANGED <<data, base, script, pc, err, failedAt, runs, last, before, rules_to_remove>>

Next ==
    \/ \E s \in Scripts : Load(s)
    \/ DropSectionStep
    \/ SetDefaultTemplateStep
    \/ SetCapturesStep
    \/ AddCaptureStep
    \/ StripCaptureFieldsStep
    \/ RemoveMcpRulesStep
    \/ Store

Spec == Init /\ [][Next]_vars

-----------------------------------------------------------------------------
\* Properties

SchemaFields == {"inputKey", "parseFileType", "computed"}
LiteralInputFields == {"file_path", "notebook_path", "name_path"}

AllRules(d) == {d.rules[i].rule : i \in DOMAIN d.rules} \cup {d.mcpRules[i].rule : i \in DOMAIN d.mcpRules}

InputKeys(r) == {CapturesOf(r)[i].inputKey : i \in DOMAIN CapturesOf(r)}

UniqueInputKeys(r) ==
    \A i, j \in DOMAIN CapturesOf(r) :
        CapturesOf(r)[i].inputKey = CapturesOf(r)[j].inputKey => i = j

Uniqueness(d) ==
    /\ \A r \in AllRules(d) : UniqueInputKeys(r)
    /\ Keys(d.rules) \cap Keys(d.mcpRules) = {}

HasParseFileType(r) ==
    \E i \in DOMAIN CapturesOf(r) :
        /\ "parseFileType" \in DOMAIN CapturesOf(r)[i]
        /\ CapturesOf(r)[i].parseFileType = TRUE

Satisfiable(p, r) ==
    \/ p \in InputKeys(r)
    \/ p \in LiteralInputFields
    \/ p = "filename"
    \/ p = "filetype" /\ HasParseFileType(r)

RuleInvariant(d) == \A r \in AllRules(d) : \A p \in Placeholders(r.default) : Satisfiable(p, r)

Restrict(c, S) == [k \in DOMAIN c \cap S |-> c[k]]

Failed == status = "failed"
RuleKnown == HasKey(before.rules, last.rule)
CapsBefore == CapturesOf(Get(before.rules, last.rule))
CapsAfter == CapturesOf(Get(data.rules, last.rule))
MatchingBefore == {n \in Keys(before.rules) : IsMcpKey(n)}

\* C1: after any sequence of migration runs on a document that satisfies the
\* uniqueness invariants, no rule holds two captures with the same inputKey and
\* no tool name is a key of both rules and mcpRules (in memory and as stored).
C1_UniquenessPreserved == Uniqueness(data) /\ Uniqueness(stored)

\* C2: while a run is under way, and after an edit of it has failed, the stored
\* document is the one loaded at the start of the run: the store step is never
\* reached with the effects of only the first k-1 edits.
C2_Atomicity == (status = "running" \/ failedAt /= 0) => stored = base

C2_Witness == Failed /\ failedAt > 1 /\ data /= base /\ stored = base

\* C3: AddCapture on a rule that already holds a capture with the same inputKey
\* fails with DuplicateCapture and leaves the document as it was before the call.
C3_DuplicateCaptureRejected ==
    (last.kind = "AddCapture" /\ RuleKnown /\ last.arg.inputKey \in InputKeys(Get(before.rules, last.rule)))
        => (Failed /\ err.type = "DuplicateCapture" /\ data = before)

\* C4: StripCaptureFields leaves every capture with exactly the keys it had among
\* inputKey, parseFileType and computed, their values unchanged.
C4_StripKeepsSchemaFields ==
    last.kind = "StripCaptureFields" =>
        /\ ~Failed
        /\ Len(data.rules) = Len(before.rules)
        /\ \A i \in DOMAIN before.rules :
              LET old == CapturesOf(before.rules[i].rule)
                  new == CapturesOf(data.rules[i].rule)
              IN /\ Len(new) = Len(old)
                 /\ \A j \in DOMAIN old : new[j] = Restrict(old[j], SchemaFields)

\* C5: the relocation removes every rule named mcp__serena__* or mcp__ide__* from
\* rules and leaves it in mcpRules under the same name with the content it had in
\* rules; the reported count is the number of names moved.
C5_RelocateMovesRules ==
    last.kind = "RemoveMcpRules" =>
        /\ \A n \in MatchingBefore :
              /\ ~HasKey(data.rules, n)
              /\ HasKey(data.mcpRules, n)
              /\ Get(data.mcpRules, n) = Get(before.rules, n)
        /\ Len(rules_to_remove) = Cardinality(MatchingBefore)

\* C6: in every stored document each placeholder of a rule's default template is
\* a capture's inputKey, a literal input field, filename, or filetype backed by a
\* capture of that rule with parseFileType true.
C6_PlaceholdersResolvable == RuleInvariant(stored)

\* C7: StripCaptureFields and DropSection are idempotent: applied again to their
\* own result they change nothing, a second update_captures run in succession
\* stores the document it loaded, and DropSection on an absent section is a
\* no-op that raises no error.
C7_Idempotent ==
    /\ last.kind = "DropSection" =>
          /\ ~Failed
          /\ DropSection(data, last.arg) = Ok(data)
          /\ last.arg \notin before.sections => data = before
    /\ (last.kind = "StripCaptureFields" /\ ~Failed) => StripCaptureFields(data) = Ok(data)
    /\ ( /\ status = "done"
         /\ script = "update_captures"
         /\ Len(log) >= 2
         /\ log[Len(log) - 1].script = "update_captures" ) => stored = base

C7_Witness ==
    /\ Len(log) = 2
    /\ log[1] = [script |-> "update_captures", changed |-> TRUE]
    /\ log[2] = [script |-> "update_captures", changed |-> FALSE]
    /\ last.kind = "DropSection"
    /\ last.arg \notin before.sections
    /\ data = before

\* C8: an edit that names a rule absent from rules fails with the error naming
\* that rule: the rule is not created, the document in memory is as before the
\* edit, and the stored document is the one the run loaded.
C8_UnknownRuleAborts ==
    (last.kind \in {"AddCapture", "SetDefaultTemplate", "SetCaptures"} /\ ~RuleKnown)
        => /\ Failed
           /\ err = [type |-> "KeyError", key |-> last.rule]
           /\ data = before
           /\ ~HasKey(data.rules, last.rule)
           /\ stored = base

C8_Witness ==
    /\ last.kind = "SetDefaultTemplate"
    /\ ~RuleKnown
    /\ Failed
    /\ failedAt > 1
    /\ data /= base

\* C9: adding a capture whose inputKey the rule does not hold yet appends it as
\* the last element: the list is the previous list followed by the capture.
\* The capture added by fix_filename_captures is the filename capture.
C9_AddCaptureAppends ==
    LET isAppend == last.kind = "AddCapture"
        isFilenameAdd == last.kind = "SetCaptures" /\ script = "fix_filename_captures"
        c == IF isAppend THEN last.arg ELSE last.arg[Len(last.arg)]
    IN ((isAppend \/ isFilenameAdd) /\ RuleKnown /\ c.inputKey \notin InputKeys(Get(before.rules, last.rule)))
           => (~Failed /\ CapsAfter = Append(CapsBefore, c))

====
